---- MODULE Spec2Model ----
(***************************************************************************)
(* A model of high-cpu.py: the merge of the parsed usage-snapshot and      *)
(* stack-dump tables (__main__), the correlator/reporter (print_report),   *)
(* and the two parsers line by line (parse_top, parse_threaddump).         *)
(*                                                                         *)
(* A Python dict is modelled as the sequence of its entries in insertion   *)
(* order ([key, val] records with distinct keys); CPU and memory percent   *)
(* are modelled as bounded integers; a timestamp is an integer; a raised   *)
(* KeyError is the program position "error".                               *)
(***************************************************************************)
EXTENDS Integers, Sequences, FiniteSets, TLC

VARIABLES
    pc,               \* position of the program
    args,             \* the parsed command line (report parameters)
    top_data,         \* merged usage table: timestamp -> UsageSnapshot
    threaddump_data,  \* merged stack-dump table: timestamp -> ThreadDumpSnapshot
    parsed,           \* the table a parser returned, about to be merged
    file_no,          \* the number of files rglob has yielded so far
    timestamps,       \* print_report: timestamps still to visit, ascending
    timestamp,        \* print_report: the timestamp being processed
    ranked,           \* print_report: threads of the ranked list still to visit
    current_limit,    \* print_report: the rank-limit counter
    hit_threads,      \* print_report: number of emitted threads
    hit_cpu_usage,    \* print_report: CPU sum of the emitted threads
    total_cpu_usage,  \* print_report: CPU sum of all threads of the snapshot
    output,           \* print_report: the row buffer of the current timestamp
    stdout,           \* the lines printed so far
    f,                \* a parser: the raw lines read from the file so far
    result,           \* a parser: the table built so far
    current_date,     \* a parser: the timestamp of the open snapshot
    line_count,       \* parse_top: the number of lines read
    skip_next,        \* parse_threaddump: the skip flag
    nid               \* parse_threaddump: the native id of the last header

\* the locals of a parser run
parser == <<f, result, current_date, line_count, skip_next, nid>>

vars == <<pc, args, top_data, threaddump_data, parsed, file_no, timestamps,
          timestamp, ranked, current_limit, hit_threads, hit_cpu_usage,
          total_cpu_usage, output, stdout, parser>>

(***************************************************************************)
(* Bounds and sample values                                                *)
(***************************************************************************)
MaxLimit == 1
MaxFiles == 2

TimeStamps == {1, 2}
Pids == {10, 26}
CpuValues == {0, 1}
None == "None"

\* current_date = None (every timestamp is truthy)
NoDate == 0

(***************************************************************************)
(* Python helpers                                                          *)
(***************************************************************************)
HexDigits == <<"0", "1", "2", "3", "4", "5", "6", "7", "8", "9",
               "a", "b", "c", "d", "e", "f">>

RECURSIVE HexStr(_)
HexStr(n) == IF n < 16 THEN HexDigits[n + 1]
             ELSE HexStr(n \div 16) \o HexDigits[(n % 16) + 1]

\* hex(pid)
Hex(n) == "0x" \o HexStr(n)

\* str(pid)
Str(n) == ToString(n)

\* re.search(x, s) for a pattern x without metacharacters: x occurs in s
ReSearch(x, s) ==
    \E i \in 1..(Len(s) - Len(x) + 1) : SubSeq(s, i, i + Len(x) - 1) = x

\* dict: the keys in insertion order
Keys(d) == [i \in 1..Len(d) |-> d[i].key]

KeySet(d) == {d[i].key : i \in 1..Len(d)}

\* k in d
Has(d, k) == k \in KeySet(d)

\* d[k]
Get(d, k) == d[CHOOSE i \in 1..Len(d) : d[i].key = k].val

\* d[k] = v: a new key is appended, an existing key keeps its position
Put(d, k, v) ==
    IF Has(d, k)
    THEN [i \in 1..Len(d) |-> IF d[i].key = k THEN [key |-> k, val |-> v] ELSE d[i]]
    ELSE Append(d, [key |-> k, val |-> v])

\* a variant of Update that keeps the threads an earlier table gave a key
RECURSIVE UpdateDeep(_, _)
UpdateDeep(d, e) ==
    IF e = <<>> THEN d
    ELSE LET k == Head(e).key
             v == Head(e).val
             w == IF Has(d, k)
                  THEN [v EXCEPT !.threads =
                            Get(d, k).threads
                              \o SelectSeq(v.threads,
                                           LAMBDA x : ~ Has(Get(d, k).threads, x.key))]
                  ELSE v
         IN UpdateDeep(Put(d, k, w), Tail(e))

\* d.update(e)
RECURSIVE Update(_, _)
Update(d, e) ==
    IF e = <<>> THEN d
    ELSE Update(Put(d, Head(e).key, Head(e).val), Tail(e))

\* sorted(keys)
RECURSIVE SortedKeys(_)
SortedKeys(S) ==
    IF S = {} THEN <<>>
    ELSE LET m == CHOOSE x \in S : \A y \in S : x <= y
         IN <<m>> \o SortedKeys(S \ {m})

\* one insertion of the stable descending sort: after every element whose
\* CPU is not smaller
InsertByCpu(s, x) ==
    LET n == Cardinality({i \in 1..Len(s) : s[i].cpu >= x.cpu})
    IN SubSeq(s, 1, n) \o <<x>> \o SubSeq(s, n + 1, Len(s))

\* sorted(threads, key=itemgetter('cpu'), reverse=True)
RECURSIVE SortByCpuDesc(_)
SortByCpuDesc(s) ==
    IF s = <<>> THEN <<>>
    ELSE InsertByCpu(SortByCpuDesc(SubSeq(s, 1, Len(s) - 1)), s[Len(s)])

\* sum([x['cpu'] for x in threads])
RECURSIVE SumCpu(_)
SumCpu(s) == IF s = <<>> THEN 0 ELSE Head(s).cpu + SumCpu(Tail(s))

\* the values of a dict, in insertion order
Values(d) == [i \in 1..Len(d) |-> d[i].val]

(***************************************************************************)
(* Records the parsers build                                               *)
(***************************************************************************)
\* sample command text of a usage row (fields[11:] rejoined)
CommandOf(pid) == IF pid = 10 THEN "java" ELSE "Thread-4"

\* sample memory percent of a usage row (fields[9])
MemOf(pid) == IF pid = 10 THEN 4 ELSE 0

\* the ThreadUsage parse_top stores for a process table row
ThreadUsage(pid, cpu) ==
    [pid |-> pid, hex_pid |-> Hex(pid), cpu |-> cpu, mem |-> MemOf(pid),
     command |-> CommandOf(pid)]

\* the 'threads' dicts of a snapshot: hex pid -> ThreadUsage, n rows
ThreadDicts(n) ==
    {d \in [1..n -> {[key |-> Hex(p), val |-> ThreadUsage(p, c)] :
                        p \in Pids, c \in CpuValues}] :
        \A i, j \in 1..n : i # j => d[i].key # d[j].key}

\* a snapshot holds at most one row per sample pid, and so does a file
MaxThreads == Cardinality(Pids)
MaxRows == Cardinality(Pids)

\* the UsageSnapshot parse_top builds for one timestamp block of a file
UsageSnapshot(filename, threads) ==
    [filename |-> filename, threads |-> threads, uptime |-> "up 1 day",
     load_averages |-> [m1 |-> "0.50", m5 |-> "0.40", m15 |-> "0.30"],
     tasks |-> "2 total", cpu |-> [us |-> "6.2", sy |-> "1.0", id |-> "92.8"]]

UsageSnapshots(filename) ==
    {UsageSnapshot(filename, t) : t \in UNION {ThreadDicts(n) : n \in 0..MaxThreads}}

RECURSIVE TotalRows(_)
TotalRows(d) == IF d = <<>> THEN 0 ELSE Len(Head(d).val.threads) + TotalRows(Tail(d))

DistinctKeys(d) == \A i, j \in 1..Len(d) : i # j => d[i].key # d[j].key

\* the tables parse_top can return for one file: at most MaxRows rows
TopTables(filename) ==
    {d \in UNION {[1..n -> [key : TimeStamps, val : UsageSnapshots(filename)]] :
                     n \in 0..Cardinality(TimeStamps)} :
        DistinctKeys(d) /\ TotalRows(d) <= MaxRows}

\* sample display name of a thread header line
NameOf(pid) == IF pid = 10 THEN "main" ELSE "worker"

\* the ThreadStack parse_threaddump builds: header line first, then frames
ThreadStack(pid) ==
    [id |-> NameOf(pid),
     lines |-> <<"\"" \o NameOf(pid) \o "\" run nid=" \o Hex(pid), "at " \o NameOf(pid)>>]

\* the thread entries of a stack-dump snapshot: nid -> ThreadStack
StackDict(S) ==
    LET ps == SortedKeys(S)
    IN [i \in 1..Len(ps) |-> [key |-> Hex(ps[i]), val |-> ThreadStack(ps[i])]]

\* the ThreadDumpSnapshot parse_threaddump builds for one timestamp block
\* (in the code one dict holds 'filename' and the nid keys, which never clash)
ThreadDumpSnapshot(filename, threads) == [filename |-> filename, threads |-> threads]

ThreadDumpSnapshots(filename) ==
    {ThreadDumpSnapshot(filename, StackDict(S)) : S \in SUBSET Pids}

\* the tables parse_threaddump can return for one file: at most one stack
TdumpTables(filename) ==
    {d \in UNION {[1..n -> [key : TimeStamps, val : ThreadDumpSnapshots(filename)]] :
                     n \in 0..Cardinality(TimeStamps)} :
        DistinctKeys(d) /\ TotalRows(d) <= 1}

TopFile == "high-cpu.out"
TdumpFile == "high-cpu-tdump.out"

\* the file rglob yields n-th: same name, another directory
FileName(base, n) == ToString(n) \o "/" \o base

(***************************************************************************)
(* The report parameters (argparse)                                        *)
(***************************************************************************)
Limits == (0 - 2)..MaxLimit
ThreadIdFilters == {{}, {Str(10)}, {Hex(26)}}
ThreadNameFilters == {{}, {"ma", "Th", "run"}}

ArgSet ==
    [limit : Limits, cpu : CpuValues, thread_ids : ThreadIdFilters,
     thread_names : ThreadNameFilters, print_thread_info : BOOLEAN,
     print_stack_trace : BOOLEAN]

\* the argparse defaults; an option given no value is None, modelled as {}
DefaultArgs ==
    [limit |-> 0 - 1, cpu |-> 0, thread_ids |-> {}, thread_names |-> {},
     print_thread_info |-> FALSE, print_stack_trace |-> FALSE]

(***************************************************************************)
(* print_report                                                            *)
(***************************************************************************)
\* a variant of TimestampOrder that walks the keys in insertion order
InsertionOrder(d) == Keys(d)

\* sorted(top_data.keys())
TimestampOrder(d) == SortedKeys(KeySet(d))

\* a variant of TotalCpu that sums only the threads the id filter keeps
TotalCpuOfListedIds(top) ==
    SumCpu(SelectSeq(Values(top.threads),
                     LAMBDA t : \/ args.thread_ids = {}
                                \/ Str(t.pid) \in args.thread_ids
                                \/ t.hex_pid \in args.thread_ids))

\* total_cpu_usage = sum([x['cpu'] for x in top['threads'].values()])
TotalCpu(top) == SumCpu(Values(top.threads))

\* the ranked list the thread loop walks
Ranked(top) == SortByCpuDesc(Values(top.threads))

\* if current_limit != -1: current_limit -= 1
LimitStep(cl) == IF cl # 0 - 1 THEN cl - 1 ELSE cl

\* a variant of Cutoff that tests the counter before it is decremented
CutoffLate(cl) == cl # 0 - 1 /\ cl < 0

\* ... if current_limit < 0: break
Cutoff(cl) == cl # 0 - 1 /\ LimitStep(cl) < 0

\* a variant of BelowFloor that also drops a thread at the floor
BelowOrAtFloor(thread, cpu_limit) == thread.cpu <= cpu_limit

\* if thread['cpu'] < cpu_limit: continue
BelowFloor(thread, cpu_limit) == thread.cpu < cpu_limit

\* if thread_ids: if str(pid) not in thread_ids and str(nid) not in thread_ids: continue
IdExcluded(thread, thread_ids) ==
    /\ thread_ids # {}
    /\ Str(thread.pid) \notin thread_ids
    /\ thread.hex_pid \notin thread_ids

\* thread['hex_pid'] in threaddump_data[timestamp]
HasStack(td, hex_pid) == Has(td.threads, hex_pid)

\* a variant of ResolvedName that falls back to the hex id
ResolvedNameNoCommand(td, thread) ==
    IF HasStack(td, thread.hex_pid) THEN Get(td.threads, thread.hex_pid).id
    ELSE thread.hex_pid

\* a variant of ResolvedName that applies the header override first
ResolvedNameOverridden(td, thread) ==
    IF HasStack(td, thread.hex_pid)
    THEN IF args.print_thread_info
         THEN Get(td.threads, thread.hex_pid).lines[1]
         ELSE Get(td.threads, thread.hex_pid).id
    ELSE thread.command

\* thread_name: the dump's 'id', or the usage record's 'command'
ResolvedName(td, thread) ==
    IF HasStack(td, thread.hex_pid) THEN Get(td.threads, thread.hex_pid).id
    ELSE thread.command

\* if thread_names: if not any(re.search(x, thread_name) ...): continue
NameExcluded(thread_name, thread_names) ==
    /\ thread_names # {}
    /\ ~ \E x \in thread_names : ReSearch(x, thread_name)

\* if print_thread_info and 'lines' in threaddump: thread_name = lines[0]
DisplayName(td, thread, print_thread_info) ==
    IF print_thread_info /\ HasStack(td, thread.hex_pid)
    THEN Get(td.threads, thread.hex_pid).lines[1]
    ELSE ResolvedName(td, thread)

\* the row appended to output
Row(thread, name) ==
    [kind |-> "row", pid |-> thread.pid, hex_pid |-> thread.hex_pid,
     cpu |-> thread.cpu, mem |-> thread.mem, name |-> name]

\* if print_stack_trace and 'lines' in threaddump: the lines [1:], indented
StackRows(td, thread, print_stack_trace) ==
    IF print_stack_trace /\ HasStack(td, thread.hex_pid)
    THEN LET l == Tail(Get(td.threads, thread.hex_pid).lines)
         IN [i \in 1..Len(l) |-> [kind |-> "stack", text |-> l[i]]]
    ELSE <<>>

\* a variant of CpuPctLine that shows two values whenever a floor is set
CpuPctLineOnFloor(hit, total) ==
    IF hit # total \/ args.cpu > 0
    THEN [kind |-> "cpupct", form |-> "pair", hit |-> hit, total |-> total]
    ELSE [kind |-> "cpupct", form |-> "single", total |-> total]

\* the CPU% line
CpuPctLine(hit, total) ==
    IF hit # total
    THEN [kind |-> "cpupct", form |-> "pair", hit |-> hit, total |-> total]
    ELSE [kind |-> "cpupct", form |-> "single", total |-> total]

\* a variant of TasksLine that takes the floor for a filter too
TasksLineOnFloor(thread_ids, thread_names, hit, tasks) ==
    IF thread_ids # {} \/ thread_names # {} \/ args.cpu > 0
    THEN [kind |-> "tasks", form |-> "filtered", hit |-> hit, tasks |-> tasks]
    ELSE [kind |-> "tasks", form |-> "raw", tasks |-> tasks]

\* the TASKS line
TasksLine(thread_ids, thread_names, hit, tasks) ==
    IF thread_ids # {} \/ thread_names # {}
    THEN [kind |-> "tasks", form |-> "filtered", hit |-> hit, tasks |-> tasks]
    ELSE [kind |-> "tasks", form |-> "raw", tasks |-> tasks]

Rule(ch) == [kind |-> "rule", ch |-> ch]

\* the lines printed before threaddump_data[timestamp] is read
BlockHead(ts, top) ==
    <<Rule("="), [kind |-> "date", ts |-> ts],
      [kind |-> "highcpu", filename |-> top.filename]>>

\* the lines printed from the TDUMP line to the '-' rule
BlockSummary(td, top, a, hit, hit_cpu, total) ==
    <<[kind |-> "tdump", filename |-> td.filename],
      [kind |-> "cpu", cpu |-> top.cpu, load_averages |-> top.load_averages],
      CpuPctLine(hit_cpu, total),
      TasksLine(a.thread_ids, a.thread_names, hit, top.tasks),
      Rule("-")>>

\* a variant of NextTimestamp that carries the counters and the row buffer
\* over from the timestamp before
NextTimestampKeepsCounters ==
    /\ pc = "timestamps"
    /\ timestamps # <<>>
    /\ LET top == Get(top_data, Head(timestamps))
       IN /\ timestamp' = Head(timestamps)
          /\ timestamps' = Tail(timestamps)
          /\ current_limit' = IF stdout = <<>> THEN args.limit ELSE current_limit
          /\ total_cpu_usage' = TotalCpu(top)
          /\ ranked' = Ranked(top)
          /\ pc' = IF Ranked(top) = <<>> THEN "block" ELSE "threads"
    /\ UNCHANGED <<args, top_data, threaddump_data, parsed, file_no, stdout,
                   hit_threads, hit_cpu_usage, output>>
    /\ UNCHANGED parser

\* the head of the outer loop body: the per-timestamp locals are set and the
\* thread list is ranked
NextTimestamp ==
    /\ pc = "timestamps"
    /\ timestamps # <<>>
    /\ LET top == Get(top_data, Head(timestamps))
       IN /\ timestamp' = Head(timestamps)
          /\ timestamps' = Tail(timestamps)
          /\ current_limit' = args.limit
          /\ hit_threads' = 0
          /\ hit_cpu_usage' = 0
          /\ output' = <<>>
          /\ total_cpu_usage' = TotalCpu(top)
          /\ ranked' = Ranked(top)
          /\ pc' = IF Ranked(top) = <<>> THEN "block" ELSE "threads"
    /\ UNCHANGED <<args, top_data, threaddump_data, parsed, file_no, stdout>>
    /\ UNCHANGED parser

\* one iteration of the thread loop
VisitThread ==
    /\ pc = "threads"
    /\ LET thread == Head(ranked)
           next == IF Tail(ranked) = <<>> THEN "block" ELSE "threads"
       IN IF Cutoff(current_limit)
          THEN \* break
               /\ current_limit' = LimitStep(current_limit)
               /\ ranked' = <<>>
               /\ pc' = "block"
               /\ UNCHANGED <<hit_threads, hit_cpu_usage, output>>
          ELSE /\ current_limit' = LimitStep(current_limit)
               /\ IF \/ BelowFloor(thread, args.cpu)
                     \/ IdExcluded(thread, args.thread_ids)
                  THEN \* continue
                       /\ ranked' = Tail(ranked)
                       /\ pc' = next
                       /\ UNCHANGED <<hit_threads, hit_cpu_usage, output>>
                  ELSE IF ~ Has(threaddump_data, timestamp)
                  THEN \* threaddump_data[timestamp] raises KeyError
                       /\ pc' = "error"
                       /\ UNCHANGED <<ranked, hit_threads, hit_cpu_usage, output>>
                  ELSE LET td == Get(threaddump_data, timestamp)
                       IN IF NameExcluded(ResolvedName(td, thread), args.thread_names)
                          THEN \* continue
                               /\ ranked' = Tail(ranked)
                               /\ pc' = next
                               /\ UNCHANGED <<hit_threads, hit_cpu_usage, output>>
                          ELSE /\ hit_threads' = hit_threads + 1
                               /\ hit_cpu_usage' = hit_cpu_usage + thread.cpu
                               /\ output' = output
                                    \o <<Row(thread, DisplayName(td, thread,
                                                     args.print_thread_info))>>
                                    \o StackRows(td, thread, args.print_stack_trace)
                               /\ ranked' = Tail(ranked)
                               /\ pc' = next
    /\ UNCHANGED <<args, top_data, threaddump_data, parsed, file_no, timestamps,
                   timestamp, total_cpu_usage, stdout>>
    /\ UNCHANGED parser

\* a variant of PrintBlock that passes over a timestamp without a
\* stack-dump snapshot
PrintBlockSkipsMissing ==
    /\ pc = "block"
    /\ LET top == Get(top_data, timestamp)
       IN IF ~ Has(threaddump_data, timestamp)
          THEN stdout' = stdout
          ELSE stdout' = stdout \o BlockHead(timestamp, top)
                           \o BlockSummary(Get(threaddump_data, timestamp), top, args,
                                           hit_threads, hit_cpu_usage, total_cpu_usage)
                           \o output
    /\ pc' = "timestamps"
    /\ UNCHANGED <<args, top_data, threaddump_data, parsed, file_no, timestamps,
                   timestamp, ranked, current_limit, hit_threads, hit_cpu_usage,
                   total_cpu_usage, output>>
    /\ UNCHANGED parser

\* the prints that follow the thread loop
PrintBlock ==
    /\ pc = "block"
    /\ LET top == Get(top_data, timestamp)
       IN IF ~ Has(threaddump_data, timestamp)
          THEN \* threaddump_data[timestamp] raises KeyError after three prints
               /\ stdout' = stdout \o BlockHead(timestamp, top)
               /\ pc' = "error"
          ELSE /\ stdout' = stdout \o BlockHead(timestamp, top)
                              \o BlockSummary(Get(threaddump_data, timestamp), top, args,
                                              hit_threads, hit_cpu_usage, total_cpu_usage)
                              \o output
               /\ pc' = "timestamps"
    /\ UNCHANGED <<args, top_data, threaddump_data, parsed, file_no, timestamps,
                   timestamp, ranked, current_limit, hit_threads, hit_cpu_usage,
                   total_cpu_usage, output>>
    /\ UNCHANGED parser

\* the outer loop is exhausted: the closing rule
ReportEnd ==
    /\ pc = "timestamps"
    /\ timestamps = <<>>
    /\ stdout' = Append(stdout, Rule("="))
    /\ pc' = "done"
    /\ UNCHANGED <<args, top_data, threaddump_data, parsed, file_no, timestamps,
                   timestamp, ranked, current_limit, hit_threads, hit_cpu_usage,
                   total_cpu_usage, output>>
    /\ UNCHANGED parser

Report == NextTimestamp \/ VisitThread \/ PrintBlock \/ ReportEnd

\* no parser is running: print_report and the merge loops see only the
\* tables the parsers returned
ParserIdle ==
    /\ f = <<>>
    /\ result = <<>>
    /\ current_date = NoDate
    /\ line_count = 0
    /\ skip_next = FALSE
    /\ nid = None

\* the locals of print_report before its outer loop runs
ReportLocalsInit ==
    /\ timestamp = 0
    /\ ranked = <<>>
    /\ current_limit = 0
    /\ hit_threads = 0
    /\ hit_cpu_usage = 0
    /\ total_cpu_usage = 0
    /\ output = <<>>
    /\ stdout = <<>>

IsAscending(s) == \A i, j \in 1..Len(s) : i < j => s[i] < s[j]

\* print_report is called, for timestamp in sorted(top_data.keys()), with
\* every table the parsers can produce and every parameter combination. The
\* stack-dump table is only looked up by key, at timestamps of the usage
\* table, and the usage table is walked through sorted(): tables in ascending
\* key order, the stack-dump table without a timestamp the usage table lacks,
\* stand for all. SpecMain reaches the other tables.
Init ==
    /\ pc = "timestamps"
    /\ args \in ArgSet
    /\ top_data \in {d \in TopTables(TopFile) : IsAscending(Keys(d))}
    /\ threaddump_data \in {d \in TdumpTables(TdumpFile) :
                                IsAscending(Keys(d)) /\ KeySet(d) \subseteq KeySet(top_data)}
    /\ timestamps = TimestampOrder(top_data)
    /\ parsed = None
    /\ file_no = 0
    /\ ReportLocalsInit
    /\ ParserIdle

Next == Report

Spec == Init /\ [][Next]_vars

(***************************************************************************)
(* __main__: the two merge loops, then print_report                        *)
(***************************************************************************)
\* parse_top(high_cpu_file) returns the table of the next file rglob yields
ParseTop ==
    /\ pc = "glob_top"
    /\ file_no < MaxFiles
    /\ \E tbl \in TopTables(FileName(TopFile, file_no + 1)) : parsed' = tbl
    /\ file_no' = file_no + 1
    /\ pc' = "update_top"
    /\ UNCHANGED <<args, top_data, threaddump_data, timestamps, timestamp, ranked,
                   current_limit, hit_threads, hit_cpu_usage, total_cpu_usage,
                   output, stdout>>
    /\ UNCHANGED parser

\* top_data.update(...)
UpdateTop ==
    /\ pc = "update_top"
    /\ top_data' = Update(top_data, parsed)
    /\ parsed' = None
    /\ pc' = "glob_top"
    /\ UNCHANGED <<args, threaddump_data, file_no, timestamps, timestamp, ranked,
                   current_limit, hit_threads, hit_cpu_usage, total_cpu_usage,
                   output, stdout>>
    /\ UNCHANGED parser

\* rglob yields no further usage file
EndTop ==
    /\ pc = "glob_top"
    /\ pc' = "glob_tdump"
    /\ UNCHANGED <<args, top_data, threaddump_data, parsed, file_no, timestamps,
                   timestamp, ranked, current_limit, hit_threads, hit_cpu_usage,
                   total_cpu_usage, output, stdout>>
    /\ UNCHANGED parser

\* parse_threaddump(threaddump_file) returns the table of the next file
ParseTdump ==
    /\ pc = "glob_tdump"
    /\ file_no < MaxFiles
    /\ \E tbl \in TdumpTables(FileName(TdumpFile, file_no + 1)) : parsed' = tbl
    /\ file_no' = file_no + 1
    /\ pc' = "update_tdump"
    /\ UNCHANGED <<args, top_data, threaddump_data, timestamps, timestamp, ranked,
                   current_limit, hit_threads, hit_cpu_usage, total_cpu_usage,
                   output, stdout>>
    /\ UNCHANGED parser

\* threaddump_data.update(...)
UpdateTdump ==
    /\ pc = "update_tdump"
    /\ threaddump_data' = Update(threaddump_data, parsed)
    /\ parsed' = None
    /\ pc' = "glob_tdump"
    /\ UNCHANGED <<args, top_data, file_no, timestamps, timestamp, ranked,
                   current_limit, hit_threads, hit_cpu_usage, total_cpu_usage,
                   output, stdout>>
    /\ UNCHANGED parser

\* rglob yields no further stack-dump file: print_report is called,
\* for timestamp in sorted(top_data.keys())
EndTdump ==
    /\ pc = "glob_tdump"
    /\ timestamps' = TimestampOrder(top_data)
    /\ pc' = "timestamps"
    /\ UNCHANGED <<args, top_data, threaddump_data, parsed, file_no,
                   timestamp, ranked, current_limit, hit_threads, hit_cpu_usage,
                   total_cpu_usage, output, stdout>>
    /\ UNCHANGED parser

Merge == ParseTop \/ UpdateTop \/ EndTop \/ ParseTdump \/ UpdateTdump \/ EndTdump

\* the program started with no option given: both tables empty
InitMain ==
    /\ pc = "glob_top"
    /\ args = DefaultArgs
    /\ top_data = <<>>
    /\ threaddump_data = <<>>
    /\ parsed = None
    /\ file_no = 0
    /\ timestamps = <<>>
    /\ ReportLocalsInit
    /\ ParserIdle

NextMain == Merge \/ Report

SpecMain == InitMain /\ [][NextMain]_vars

(***************************************************************************)
(* Text helpers of the parsers.  Whitespace is the space character: the    *)
(* sample lines hold no other.                                             *)
(***************************************************************************)
\* the least element of a non-empty set of integers
Least(S) == CHOOSE x \in S : \A y \in S : x <= y

\* s.lstrip()
RECURSIVE Lstrip(_)
Lstrip(s) ==
    IF s # "" /\ SubSeq(s, 1, 1) = " " THEN Lstrip(SubSeq(s, 2, Len(s))) ELSE s

\* s.rstrip()
RECURSIVE Rstrip(_)
Rstrip(s) ==
    IF s # "" /\ SubSeq(s, Len(s), Len(s)) = " "
    THEN Rstrip(SubSeq(s, 1, Len(s) - 1)) ELSE s

\* s.strip()
Strip(s) == Lstrip(Rstrip(s))

\* s.startswith(p)
StartsWith(s, p) == Len(s) >= Len(p) /\ SubSeq(s, 1, Len(p)) = p

\* the position of the first whitespace of t at or after k (past the end of
\* t when it has none)
RECURSIVE WordEnd(_, _)
WordEnd(t, k) ==
    IF k > Len(t) \/ SubSeq(t, k, k) = " " THEN k ELSE WordEnd(t, k + 1)

\* s.split(): the maximal runs of non-whitespace characters
RECURSIVE Split(_)
Split(s) ==
    LET t == Lstrip(s)
    IN IF t = "" THEN <<>>
       ELSE LET n == WordEnd(t, 1)
            IN <<SubSeq(t, 1, n - 1)>> \o Split(SubSeq(t, n, Len(t)))

\* ' '.join(words)
RECURSIVE Join(_)
Join(words) ==
    IF words = <<>> THEN ""
    ELSE IF Len(words) = 1 THEN words[1]
    ELSE words[1] \o " " \o Join(Tail(words))

DecDigits == "0123456789"
WordChars == "abcdefghijklmnopqrstuvwxyzABCDEFGHIJKLMNOPQRSTUVWXYZ0123456789"

\* the character c is one of the characters of the string class
InClass(c, class) == \E i \in 1..Len(class) : SubSeq(class, i, i) = c

\* [0-9]+ matches the whole of w
IsDigits(w) == w # "" /\ \A i \in 1..Len(w) : InClass(SubSeq(w, i, i), DecDigits)

\* the start of the run of decimal digits of w that ends at k (k + 1 when
\* w[k] is no digit)
RECURSIVE DigitsStart(_, _)
DigitsStart(w, k) ==
    IF k >= 1 /\ InClass(SubSeq(w, k, k), DecDigits) THEN DigitsStart(w, k - 1) ELSE k + 1

\* int(w) of a string of decimal digits
RECURSIVE IntOf(_)
IntOf(w) ==
    LET d == CHOOSE v \in 0..9 : ToString(v) = SubSeq(w, Len(w), Len(w))
    IN IF Len(w) = 1 THEN d ELSE 10 * IntOf(SubSeq(w, 1, Len(w) - 1)) + d

\* [0-9]+.[0-9]+ matches the whole of w
IsDecimal(w) ==
    \E i \in 2..(Len(w) - 1) :
        IsDigits(SubSeq(w, 1, i - 1)) /\ IsDigits(SubSeq(w, i + 1, Len(w)))

\* the end of the longest run of characters of the class that starts at i
\* (i - 1 when s[i] is not of the class)
RunEnd(s, i, class) ==
    CHOOSE e \in (i - 1)..Len(s) :
        /\ \A m \in i..e : InClass(SubSeq(s, m, m), class)
        /\ e = Len(s) \/ ~ InClass(SubSeq(s, e + 1, e + 1), class)

(***************************************************************************)
(* parse_top, line by line                                                 *)
(***************************************************************************)
MaxTopLines == 3

\* the sample timestamp line of the default --datetime-format, second t
DateLine(t) == "Mon Jan 1 00:00:0" \o Str(t) \o " AM UTC 2024"

\* the sample process table row of a thread
RowLine(pid, cpu) ==
    Str(pid) \o " jboss 20 0 14.7g 8.6g 40040 S " \o Str(cpu) \o " "
      \o Str(MemOf(pid)) \o " 0:00.02 " \o CommandOf(pid)

\* the sample raw lines of a usage-snapshot file
TopLines ==
    {" ",
     "PID USER PR NI VIRT RES SHR S %CPU %MEM TIME+ COMMAND",
     DateLine(1),
     DateLine(2),
     "top - 00:00:01 up 1 day, 2 users, load average: 0.50, 0.40, 0.30",
     "Threads: 2 total, 1 running",
     "%Cpu(s): 6.2 us, 1.0 sy, 0.0 ni, 92.8 id",
     "KiB Mem : 1 total",
     "MiB Swap: 0 total",
     RowLine(10, 1),
     RowLine(26, 1),
     "10 jboss 20 0",
     "java jboss 20 0 14.7g 8.6g 40040 S 1 4 0:00.02 java",
     "10 jboss 20 0 14.7g 8.6g 40040 S n/a 4 0:00.02 java"}

\* the sample header line of a thread in a stack dump
HeaderLine(name, pid) == "\"" \o name \o "\" run nid=" \o Hex(pid)

\* the sample raw lines of a stack-dump file: two timestamps, two headers of
\* one native id, a frame, an empty line and the dump's title
DumpLines ==
    {" ",
     "Full thread dump OpenJDK",
     DateLine(1),
     DateLine(2),
     HeaderLine(NameOf(10), 10),
     HeaderLine("other", 10),
     "at " \o NameOf(10)}

\* \d{1,2}:\d{1,2}:\d{1,2} matches the whole of w
IsClock(w) ==
    \E i, j \in 1..Len(w) :
        /\ i < j /\ SubSeq(w, i, i) = ":" /\ SubSeq(w, j, j) = ":"
        /\ IsDigits(SubSeq(w, 1, i - 1)) /\ i - 1 <= 2
        /\ IsDigits(SubSeq(w, i + 1, j - 1)) /\ j - i - 1 <= 2
        /\ IsDigits(SubSeq(w, j + 1, Len(w))) /\ Len(w) - j <= 2

\* \w{3,4} matches the whole of w
IsName(w) == Len(w) \in 3..4 /\ \A i \in 1..Len(w) : InClass(SubSeq(w, i, i), WordChars)

\* the default --datetime-regex matches at the start of line (single spaces
\* between the parts)
RegexMatch(line) ==
    LET w == Split(line)
    IN /\ Len(line) >= 27    \* the shortest text the pattern matches
       /\ ~ StartsWith(line, " ")
       /\ Len(w) >= 7
       /\ IsName(w[1]) /\ IsName(w[2])
       /\ IsDigits(w[3]) /\ Len(w[3]) <= 2
       /\ IsClock(w[4])
       /\ w[5] \in {"AM", "PM"}
       /\ IsName(w[6])
       /\ Len(w[7]) >= 4 /\ IsDigits(SubSeq(w[7], 1, 4))

\* the sample lines as the parsers see them (stripped), and those among them
\* the timestamp pattern matches, with the timestamp each parses to (a
\* timestamp is modelled as the seconds of its clock)
StrippedLines == {Strip(l) : l \in TopLines} \cup {Rstrip(l) : l \in DumpLines}

TimestampLines == {l \in StrippedLines : RegexMatch(l)}

TimestampOf ==
    [l \in TimestampLines |->
        LET c == Split(l)[4] IN IntOf(SubSeq(c, DigitsStart(c, Len(c)), Len(c)))]

\* datetime_regex.match(line), of a sample line
DatetimeMatch(line) == line \in TimestampLines

\* datetime.strptime(line, datetime_format), of a sample line
Strptime(line) == TimestampOf[line]

\* d[k] = v on a dict with a fixed few string keys, modelled as a record
With(r, k, v) == [x \in DOMAIN r \cup {k} |-> IF x = k THEN v ELSE r[x]]

\* result[current_date] = dict(); ['threads'] = dict(); ['filename'] = filename
NewUsageSnapshot(filename) == [threads |-> <<>>, filename |-> filename]

\* the start positions of the matches of 'up[ 0-9a-zA-Z]+' in line
UptimeStarts(line) ==
    {i \in 1..(Len(line) - 2) :
        /\ SubSeq(line, i, i + 1) = "up"
        /\ InClass(SubSeq(line, i + 2, i + 2), WordChars \o " ")}

\* re.search('up[ 0-9a-zA-Z]+', line)[0]
Uptime(line) ==
    LET i == Least(UptimeStarts(line))
    IN SubSeq(line, i, RunEnd(line, i + 2, WordChars \o " "))

\* w is a [0-9]+.[0-9]+ followed by a comma
IsDecimalComma(w) ==
    Len(w) > 1 /\ SubSeq(w, Len(w), Len(w)) = "," /\ IsDecimal(SubSeq(w, 1, Len(w) - 1))

\* the word positions where 'load average: (D), (D), (D)' matches, D being
\* [0-9]+.[0-9]+
LoadAverageStarts(w) ==
    {k \in 1..(Len(w) - 4) :
        /\ Len(w[k]) >= 4 /\ SubSeq(w[k], Len(w[k]) - 3, Len(w[k])) = "load"
        /\ w[k + 1] = "average:"
        /\ IsDecimalComma(w[k + 2]) /\ IsDecimalComma(w[k + 3])
        /\ IsDecimal(w[k + 4]) \/ IsDecimalComma(w[k + 4])}

\* the three groups of the load average match
LoadAverages(w) ==
    LET k == Least(LoadAverageStarts(w))
        num(x) == IF IsDecimal(x) THEN x ELSE SubSeq(x, 1, Len(x) - 1)
    IN [m1 |-> num(w[k + 2]), m5 |-> num(w[k + 3]), m15 |-> num(w[k + 4])]

\* the word positions where '[0-9]+ total' matches
TasksStarts(w) ==
    {k \in 1..(Len(w) - 1) :
        /\ InClass(SubSeq(w[k], Len(w[k]), Len(w[k])), DecDigits)
        /\ StartsWith(w[k + 1], "total")}

\* re.search('[0-9]+ total', line)[0]
Tasks(w) ==
    LET x == w[Least(TasksStarts(w))]
    IN SubSeq(x, DigitsStart(x, Len(x)), Len(x)) \o " total"

\* the word positions where '([0-9]+.[0-9]+) unit' matches
CpuStarts(w, unit) ==
    {k \in 1..(Len(w) - 1) : IsDecimal(w[k]) /\ StartsWith(w[k + 1], unit)}

\* re.search('([0-9]+.[0-9]+) unit', line)[1]
CpuField(w, unit) == w[Least(CpuStarts(w, unit))]

\* int(fields[0]), float(fields[8]) and float(fields[9]) raise IndexError or
\* ValueError (percentages are modelled as whole numbers)
RowMalformed(fields) ==
    \/ ~ IsDigits(fields[1])
    \/ Len(fields) < 9
    \/ ~ IsDigits(fields[9])
    \/ Len(fields) < 10
    \/ ~ IsDigits(fields[10])

\* the ThreadUsage of a process table row, with its line number
ParsedThreadUsage(fields, line, count) ==
    [id |-> count, pid |-> IntOf(fields[1]), hex_pid |-> Hex(IntOf(fields[1])),
     cpu |-> IntOf(fields[9]), mem |-> IntOf(fields[10]), top_line |-> line,
     status |-> fields[8], command |-> Join(SubSeq(fields, 12, Len(fields)))]

\* a variant of CountLine that leaves out the lines the first rule ignores
CountLineUnlessIgnored(count, line) ==
    IF line = "" \/ ReSearch("PID", line) THEN count ELSE count + 1

\* line_count += 1, for every line read
CountLine(count, line) == count + 1

\* a variant of RowRule that passes over a malformed row
RowRuleSkipsMalformed(res, date, count, line) ==
    LET fields == Split(line)
        snap == Get(res, date)
    IN IF RowMalformed(fields)
       THEN [pc |-> "parse_top", result |-> res]
       ELSE [pc |-> "parse_top",
             result |-> Put(res, date,
                            [snap EXCEPT !.threads =
                                Put(snap.threads, Hex(IntOf(fields[1])),
                                    ParsedThreadUsage(fields, line, count))])]

\* the process table row rule: fields = line.split() ... ['threads'][hex_pid] = {...}
RowRule(res, date, count, line) ==
    LET fields == Split(line)
        snap == Get(res, date)
    IN IF RowMalformed(fields)
       THEN [pc |-> "error", result |-> res]
       ELSE [pc |-> "parse_top",
             result |-> Put(res, date,
                            [snap EXCEPT !.threads =
                                Put(snap.threads, Hex(IntOf(fields[1])),
                                    ParsedThreadUsage(fields, line, count))])]

\* if line.startswith('top'): uptime is stored before the load averages are
\* searched; a search without a match raises TypeError
TopRule(res, date, line) ==
    LET w == Split(line)
        snap == Get(res, date)
    IN IF UptimeStarts(line) = {}
       THEN [pc |-> "error", result |-> res]
       ELSE LET up == With(snap, "uptime", Uptime(line))
            IN IF LoadAverageStarts(w) = {}
               THEN [pc |-> "error", result |-> Put(res, date, up)]
               ELSE [pc |-> "parse_top",
                     result |-> Put(res, date,
                                    With(up, "load_averages", LoadAverages(w)))]

\* if line.startswith('Threads')
ThreadsRule(res, date, line) ==
    LET w == Split(line)
    IN IF TasksStarts(w) = {}
       THEN [pc |-> "error", result |-> res]
       ELSE [pc |-> "parse_top",
             result |-> Put(res, date, With(Get(res, date), "tasks", Tasks(w)))]

\* if line.startswith('%Cpu')
CpuRule(res, date, line) ==
    LET w == Split(line)
    IN IF \E u \in {"us", "sy", "id"} : CpuStarts(w, u) = {}
       THEN [pc |-> "error", result |-> res]
       ELSE [pc |-> "parse_top",
             result |-> Put(res, date,
                            With(Get(res, date), "cpu",
                                 [us |-> CpuField(w, "us"), sy |-> CpuField(w, "sy"),
                                  id |-> CpuField(w, "id")]))]

\* the body of the line loop of parse_top after line_count += 1: the new
\* position, table and open timestamp
TopLineRule(res, date, count, line, filename) ==
    LET same == [pc |-> "parse_top", result |-> res, current_date |-> date]
        at(r) == [pc |-> r.pc, result |-> r.result, current_date |-> date]
    IN IF line = "" \/ ReSearch("PID", line) THEN same
       ELSE IF DatetimeMatch(line)
       THEN [pc |-> "parse_top",
             result |-> Put(res, Strptime(line), NewUsageSnapshot(filename)),
             current_date |-> Strptime(line)]
       ELSE IF date = NoDate THEN same
       ELSE IF StartsWith(line, "top") THEN at(TopRule(res, date, line))
       ELSE IF StartsWith(line, "Threads") THEN at(ThreadsRule(res, date, line))
       ELSE IF StartsWith(line, "%Cpu") THEN at(CpuRule(res, date, line))
       ELSE IF StartsWith(line, "KiB Mem") \/ StartsWith(line, "MiB Mem") THEN same
       ELSE IF StartsWith(line, "KiB Swap") \/ StartsWith(line, "MiB Swap") THEN same
       ELSE at(RowRule(res, date, count, line))

\* the variables print_report and the merge loops own
report == <<args, top_data, threaddump_data, file_no, timestamps, timestamp,
            ranked, current_limit, hit_threads, hit_cpu_usage, total_cpu_usage,
            output, stdout>>

\* for raw_line in f: one line of the file is read and handled
ParseTopStep ==
    /\ pc = "parse_top"
    /\ Len(f) < MaxTopLines
    /\ \E raw_line \in TopLines :
          LET line == Strip(raw_line)
              count == CountLine(line_count, line)
              st == TopLineRule(result, current_date, count, line, TopFile)
          IN /\ f' = Append(f, raw_line)
             /\ line_count' = count
             /\ result' = st.result
             /\ current_date' = st.current_date
             /\ pc' = st.pc
    /\ UNCHANGED <<skip_next, nid, parsed>>
    /\ UNCHANGED report

\* the file is exhausted: return result
ParseTopReturn ==
    /\ pc = "parse_top"
    /\ parsed' = result
    /\ pc' = "returned"
    /\ UNCHANGED parser
    /\ UNCHANGED report

\* parse_top is called on a file
InitTop ==
    /\ pc = "parse_top"
    /\ args = DefaultArgs
    /\ top_data = <<>>
    /\ threaddump_data = <<>>
    /\ parsed = None
    /\ file_no = 0
    /\ timestamps = <<>>
    /\ ReportLocalsInit
    /\ f = <<>>
    /\ result = <<>>
    /\ current_date = NoDate
    /\ line_count = 0
    /\ skip_next = FALSE
    /\ nid = None

NextTop == ParseTopStep \/ ParseTopReturn

SpecTop == InitTop /\ [][NextTop]_vars

(***************************************************************************)
(* parse_threaddump, line by line                                          *)
(***************************************************************************)
MaxDumpLines == 6

\* the start positions of the matches of 'nid=(0x[0-9a-zA-Z]+)' in line
NidStarts(line) ==
    {i \in 1..(Len(line) - 6) :
        /\ SubSeq(line, i, i + 5) = "nid=0x"
        /\ InClass(SubSeq(line, i + 6, i + 6), WordChars)}

\* re.search('nid=(0x[0-9a-zA-Z]+)', line)[1]
Nid(line) ==
    LET i == Least(NidStarts(line))
    IN SubSeq(line, i + 4, RunEnd(line, i + 6, WordChars))

\* re.match('"([^"]+)"', line) finds a match
HasThreadId(line) ==
    /\ StartsWith(line, "\"")
    /\ \E j \in 3..Len(line) : SubSeq(line, j, j) = "\""
    /\ SubSeq(line, 2, 2) # "\""

\* re.match('"([^"]+)"', line)[1]
ThreadId(line) ==
    SubSeq(line, 2, Least({j \in 3..Len(line) : SubSeq(line, j, j) = "\""}) - 1)

\* a variant of Skipped that lets a timestamp line through
SkippedUnlessDate(skip, line) == skip /\ ~ DatetimeMatch(line)

\* if skip_next: the line is passed over whatever it holds
Skipped(skip, line) == skip

\* a variant of IgnoredDumpLine that lets empty lines through
IgnoredTitleOnly(line) == ReSearch("Full thread", line)

\* if "Full thread" in line or len(line) == 0: continue
IgnoredDumpLine(line) == ReSearch("Full thread", line) \/ line = ""

\* a variant of HeaderRule that keeps the lines of an entry it finds
HeaderRuleKeepsLines(res, date, line) ==
    LET snap == Get(res, date)
        old == IF Has(snap.threads, Nid(line))
               THEN Get(snap.threads, Nid(line)).lines ELSE <<>>
    IN [pc |-> "parse_threaddump", nid |-> Nid(line),
        result |-> Put(res, date,
                       [snap EXCEPT !.threads =
                           Put(snap.threads, Nid(line),
                               [lines |-> old \o <<line>>, id |-> ThreadId(line)])])]

\* if 'nid=0x' in line: nid is bound first, then the name is matched, then
\* result[current_date][nid] = {'lines': [line], 'id': thread_id}; a
\* search without a match raises TypeError
HeaderRule(res, date, line) ==
    LET snap == Get(res, date)
    IN IF NidStarts(line) = {}
       THEN [pc |-> "error", nid |-> nid, result |-> res]
       ELSE IF ~ HasThreadId(line)
       THEN [pc |-> "error", nid |-> Nid(line), result |-> res]
       ELSE [pc |-> "parse_threaddump", nid |-> Nid(line),
             result |-> Put(res, date,
                            [snap EXCEPT !.threads =
                                Put(snap.threads, Nid(line),
                                    [lines |-> <<line>>, id |-> ThreadId(line)])])]

\* a variant of AppendRule that creates the entry it does not find
AppendRuleCreates(res, date, n, line) ==
    LET snap == Get(res, date)
        old == IF Has(snap.threads, n) THEN Get(snap.threads, n)
               ELSE [lines |-> <<>>, id |-> n]
    IN [pc |-> "parse_threaddump", nid |-> n,
        result |-> Put(res, date,
                       [snap EXCEPT !.threads =
                           Put(snap.threads, n,
                               [old EXCEPT !.lines = Append(old.lines, line)])])]

\* result[current_date][nid]['lines'].append(line): nid unbound raises
\* UnboundLocalError, an entry the snapshot lacks raises KeyError
AppendRule(res, date, n, line) ==
    LET snap == Get(res, date)
    IN IF n = None \/ ~ Has(snap.threads, n)
       THEN [pc |-> "error", nid |-> n, result |-> res]
       ELSE LET old == Get(snap.threads, n)
            IN [pc |-> "parse_threaddump", nid |-> n,
                result |-> Put(res, date,
                               [snap EXCEPT !.threads =
                                   Put(snap.threads, n,
                                       [old EXCEPT !.lines = Append(old.lines, line)])])]

\* the body of the line loop of parse_threaddump: the new position, table,
\* open timestamp, skip flag and native id
DumpLineRule(res, date, skip, n, line, filename) ==
    LET same == [pc |-> "parse_threaddump", result |-> res, current_date |-> date,
                 skip_next |-> skip, nid |-> n]
        at(r) == [pc |-> r.pc, result |-> r.result, current_date |-> date,
                  skip_next |-> skip, nid |-> r.nid]
    IN IF Skipped(skip, line) THEN [same EXCEPT !.skip_next = FALSE]
       ELSE IF DatetimeMatch(line)
       THEN [pc |-> "parse_threaddump",
             result |-> Put(res, Strptime(line), ThreadDumpSnapshot(filename, <<>>)),
             current_date |-> Strptime(line), skip_next |-> TRUE, nid |-> n]
       ELSE IF IgnoredDumpLine(line) THEN same
       ELSE IF date = NoDate THEN same
       ELSE IF ReSearch("nid=0x", line) THEN at(HeaderRule(res, date, line))
       ELSE at(AppendRule(res, date, n, line))

\* for raw_line in f: one line of the file is read and handled
ParseThreaddumpStep ==
    /\ pc = "parse_threaddump"
    /\ Len(f) < MaxDumpLines
    /\ \E raw_line \in DumpLines :
          LET st == DumpLineRule(result, current_date, skip_next, nid,
                                 Rstrip(raw_line), TdumpFile)
          IN /\ f' = Append(f, raw_line)
             /\ result' = st.result
             /\ current_date' = st.current_date
             /\ skip_next' = st.skip_next
             /\ nid' = st.nid
             /\ pc' = st.pc
    /\ UNCHANGED <<line_count, parsed>>
    /\ UNCHANGED report

\* the file is exhausted: return result
ParseThreaddumpReturn ==
    /\ pc = "parse_threaddump"
    /\ parsed' = result
    /\ pc' = "returned"
    /\ UNCHANGED parser
    /\ UNCHANGED report

\* parse_threaddump is called on a file; nid is unbound
InitTdump ==
    /\ pc = "parse_threaddump"
    /\ args = DefaultArgs
    /\ top_data = <<>>
    /\ threaddump_data = <<>>
    /\ parsed = None
    /\ file_no = 0
    /\ timestamps = <<>>
    /\ ReportLocalsInit
    /\ f = <<>>
    /\ result = <<>>
    /\ current_date = NoDate
    /\ line_count = 0
    /\ skip_next = FALSE
    /\ nid = None

NextTdump == ParseThreaddumpStep \/ ParseThreaddumpReturn

SpecTdump == InitTdump /\ [][NextTdump]_vars

(***************************************************************************)
(* Reading the printed report and the inputs, for the properties below     *)
(***************************************************************************)
\* the ThreadUsage entries of a usage snapshot, in insertion order
UsageThreads(ts) == Values(Get(top_data, ts).threads)

\* how many threads of the snapshot precede thread i in the ranked list:
\* those with more CPU, and those with equal CPU inserted earlier
RankOf(ts, i) ==
    LET th == UsageThreads(ts)
    IN Cardinality({j \in 1..Len(th) :
                      \/ th[j].cpu > th[i].cpu
                      \/ th[j].cpu = th[i].cpu /\ j < i})

Max0(n) == IF n < 0 THEN 0 ELSE n

WithinLimit(ts, i) == args.limit = 0 - 1 \/ RankOf(ts, i) < Max0(args.limit)

StackNids(ts) ==
    IF Has(threaddump_data, ts) THEN KeySet(Get(threaddump_data, ts).threads) ELSE {}

NameFor(ts, i) ==
    LET t == UsageThreads(ts)[i]
    IN IF t.hex_pid \in StackNids(ts)
       THEN Get(Get(threaddump_data, ts).threads, t.hex_pid).id
       ELSE t.command

PassesFilters(ts, i) ==
    LET t == UsageThreads(ts)[i]
    IN /\ t.cpu >= args.cpu
       /\ args.thread_ids # {} =>
              Str(t.pid) \in args.thread_ids \/ t.hex_pid \in args.thread_ids
       /\ args.thread_names # {} =>
              \E x \in args.thread_names : ReSearch(x, NameFor(ts, i))

\* the index of the usage thread a row was printed for
ThreadIndex(ts, row) ==
    CHOOSE i \in 1..Len(UsageThreads(ts)) : UsageThreads(ts)[i].pid = row.pid

RowFromSnapshot(ts, row) ==
    \E i \in 1..Len(UsageThreads(ts)) : UsageThreads(ts)[i].pid = row.pid

Reported(ts) ==
    \E i \in 1..Len(stdout) : stdout[i].kind = "date" /\ stdout[i].ts = ts

StartOf(ts) ==
    CHOOSE i \in 1..Len(stdout) : stdout[i].kind = "date" /\ stdout[i].ts = ts

\* the first line from line i on that is an '=' rule, or the line past the end
RECURSIVE EndFrom(_)
EndFrom(i) ==
    IF i > Len(stdout) THEN i
    ELSE IF stdout[i] = Rule("=") THEN i
    ELSE EndFrom(i + 1)

\* the lines printed for a timestamp after its DATE/TIME line
BlockOf(ts) ==
    LET s == StartOf(ts) IN SubSeq(stdout, s + 1, EndFrom(s + 1) - 1)

IsRow(l) == l.kind = "row"

RowsOf(ts) == SelectSeq(BlockOf(ts), IsRow)

\* the block of ts was printed to its end
Complete(ts) ==
    /\ Reported(ts)
    /\ LET b == BlockOf(ts) IN \E k \in 1..Len(b) : b[k] = Rule("-")

LineOf(ts, kind) ==
    LET b == BlockOf(ts) IN b[CHOOSE k \in 1..Len(b) : b[k].kind = kind]

RECURSIVE SumRows(_)
SumRows(rows) == IF rows = <<>> THEN 0 ELSE Head(rows).cpu + SumRows(Tail(rows))

\* stdout changes only in the steps that lead to these positions: every
\* content stdout ever has is the content of a state at one of them
AfterPrint == pc \in {"timestamps", "done", "error"}

\* the lines print_report holds for ts (while its threads are walked) or has
\* printed for ts after the '-' rule
EmittedLines(ts) ==
    IF pc \in {"threads", "block"}
    THEN IF timestamp = ts THEN output ELSE <<>>
    ELSE IF Complete(ts) THEN BlockOf(ts) ELSE <<>>

EmittedRows(ts) == SelectSeq(EmittedLines(ts), IsRow)

UsageTimestamps == KeySet(top_data)

\* the DATE/TIME lines printed so far
DateLines == SelectSeq(stdout, LAMBDA l : l.kind = "date")

(***************************************************************************)
(* Properties                                                              *)
(***************************************************************************)
\* C1: with a rank limit other than -1 every visited candidate consumes one
\* slot, whatever filter excludes it later: the counter is the limit less
\* the number of candidates visited, at most max(limit, 0) candidates are
\* visited, and every emitted row is among the first max(limit, 0) entries
\* of the ranked list.
RankLimitCutoff ==
    /\ \A ts \in UsageTimestamps :
          LET rows == EmittedRows(ts)
          IN \A k \in 1..Len(rows) :
                /\ RowFromSnapshot(ts, rows[k])
                /\ WithinLimit(ts, ThreadIndex(ts, rows[k]))
    /\ (pc = "threads" /\ args.limit # 0 - 1) =>
          LET visited == Len(UsageThreads(timestamp)) - Len(ranked)
          IN /\ current_limit = args.limit - visited
             /\ visited <= Max0(args.limit)

\* a thread excluded by the id filter took the only slot: the thread ranked
\* second, which passes every filter, is not in the printed block
RankLimitCutoffWitness ==
    /\ pc = "done"
    /\ args.limit = 1
    /\ args.thread_ids # {}
    /\ \E ts \in UsageTimestamps :
          /\ Complete(ts)
          /\ RowsOf(ts) = <<>>
          /\ \E i \in 1..Len(UsageThreads(ts)) :
                RankOf(ts, i) = 1 /\ PassesFilters(ts, i)

\* C2: the total on the CPU% line is the CPU sum over all ThreadUsage
\* entries of the snapshot, for every parameter combination, and the total
\* held while the threads are walked is that sum too.
TotalCpuIsUnfiltered ==
    /\ AfterPrint => \A ts \in UsageTimestamps :
          Complete(ts) => LineOf(ts, "cpupct").total = SumRows(UsageThreads(ts))
    /\ pc \in {"threads", "block"} =>
          total_cpu_usage = SumRows(UsageThreads(timestamp))

\* a printed block whose rows sum to less than the total it shows
TotalCpuIsUnfilteredWitness ==
    \E ts \in UsageTimestamps :
        /\ Complete(ts)
        /\ RowsOf(ts) # <<>>
        /\ SumRows(RowsOf(ts)) < LineOf(ts, "cpupct").total

MissingSnapshotFails ==
    /\ AfterPrint => \A ts \in UsageTimestamps :
          ~ Has(threaddump_data, ts) => ~ Complete(ts)
    /\ (pc \in {"timestamps", "done"} /\ timestamp \in UsageTimestamps) =>
          Has(threaddump_data, timestamp)
    /\ pc = "done" => \A ts \in UsageTimestamps : Has(threaddump_data, ts)
    /\ (pc \in {"threads", "block"} /\ ~ Has(threaddump_data, timestamp)) =>
          ENABLED (VisitThread \/ PrintBlock)
    /\ pc = "error" => ~ Has(threaddump_data, timestamp)

\* the error is raised for a snapshot without threads
MissingSnapshotFailsWitness ==
    /\ pc = "error"
    /\ UsageThreads(timestamp) = <<>>
    /\ ~ Has(threaddump_data, timestamp)

\* C5: when the stack-dump snapshot exists without a ThreadStack for a
\* thread, no error is raised for it; its row shows the command text, also
\* with show_header_line, and no stack line follows the row, also with
\* show_full_stack.
NoStackFallsBack ==
    /\ pc = "error" => ~ Has(threaddump_data, timestamp)
    /\ \A ts \in UsageTimestamps :
          LET rows == EmittedLines(ts)
          IN \A k \in 1..Len(rows) :
                (rows[k].kind = "row" /\ rows[k].hex_pid \notin StackNids(ts)) =>
                    /\ RowFromSnapshot(ts, rows[k])
                    /\ rows[k].name = UsageThreads(ts)[ThreadIndex(ts, rows[k])].command
                    /\ k < Len(rows) => rows[k + 1].kind # "stack"

\* with both display toggles set, a block holds a row of a thread without a
\* stack record beside the row and stack lines of a thread that has one
NoStackFallsBackWitness ==
    /\ args.print_thread_info
    /\ args.print_stack_trace
    /\ \E ts \in UsageTimestamps :
          /\ Complete(ts)
          /\ Len(RowsOf(ts)) = 2
          /\ \E k \in 1..2 : RowsOf(ts)[k].hex_pid \notin StackNids(ts)
          /\ \E k \in 1..2 : RowsOf(ts)[k].hex_pid \in StackNids(ts)

\* C6: when print_report raises the lookup error for a timestamp, nothing of
\* that timestamp's block has reached the output.
NothingPrintedOnAbort ==
    pc = "error" => ~ Reported(timestamp)

\* C7: the tasks line has the filtered form exactly when the id filter or
\* the name filter is non-empty, whatever the floor and the rank limit
\* exclude; it shows the raw task-count text, and in the filtered form the
\* number of rows of the block.
TasksLineForm ==
    AfterPrint => \A ts \in UsageTimestamps :
        Complete(ts) =>
            LET l == LineOf(ts, "tasks")
            IN /\ l.form = "filtered" <=>
                     (args.thread_ids # {} \/ args.thread_names # {})
               /\ l.form \in {"filtered", "raw"}
               /\ l.tasks = Get(top_data, ts).tasks
               /\ l.form = "filtered" => l.hit = Len(RowsOf(ts))

\* the floor alone left a thread out and the tasks line is raw; or a filter
\* is set and the filtered count is below the number of threads
TasksLineFormWitness ==
    \E ts \in UsageTimestamps :
        /\ Complete(ts)
        /\ Len(RowsOf(ts)) < Len(UsageThreads(ts))
        /\ args.cpu > 0
        /\ args.limit = 0 - 1
        /\ LineOf(ts, "tasks").form = "raw"

\* C8: the CPU% line has the two-value form exactly when the CPU sum of the
\* block's rows differs from the CPU sum of all threads of the snapshot; the
\* two-value form shows both sums and the single-value form the total.
CpuPctLineForm ==
    AfterPrint => \A ts \in UsageTimestamps :
        Complete(ts) =>
            LET l == LineOf(ts, "cpupct")
                shown == SumRows(RowsOf(ts))
                total == SumRows(UsageThreads(ts))
            IN /\ l.form \in {"pair", "single"}
               /\ l.form = "pair" <=> shown # total
               /\ l.total = total
               /\ l.form = "pair" => l.hit = shown

\* a thread with CPU 0 was left out and the single-value form is shown
CpuPctLineFormWitness ==
    \E ts \in UsageTimestamps :
        /\ Complete(ts)
        /\ Len(RowsOf(ts)) < Len(UsageThreads(ts))
        /\ LineOf(ts, "cpupct").form = "single"
        /\ LineOf(ts, "cpupct").total > 0

\* what d.update(file) must leave of old in new
MergeStep(old, new, file) ==
    /\ KeySet(new) = KeySet(old) \cup KeySet(file)
    /\ DistinctKeys(new)
    /\ \A t \in KeySet(file) : Get(new, t) = Get(file, t)
    /\ \A t \in KeySet(old) \ KeySet(file) : Get(new, t) = Get(old, t)

\* C9: every update of a merged table with a file's table leaves the union
\* of the keys; every timestamp of the file maps to the file's snapshot,
\* whole, and every other timestamp keeps the snapshot it had, so a
\* timestamp several files produce holds the snapshot of the last of them.
MergeIsKeyUnion ==
    [][/\ pc = "update_top" => MergeStep(top_data, top_data', parsed)
       /\ pc = "update_tdump" => MergeStep(threaddump_data, threaddump_data', parsed)]_vars

\* a second file replaced the snapshot of a timestamp the first file had
\* given threads
MergeIsKeyUnionWitness ==
    /\ pc = "glob_top"
    /\ file_no = 2
    /\ \E t \in KeySet(top_data) :
          /\ Get(top_data, t).filename = FileName(TopFile, 2)
          /\ Get(top_data, t).threads = <<>>
    /\ \E t \in KeySet(top_data) : Get(top_data, t).filename = FileName(TopFile, 1)

\* C10: the report holds one block per timestamp of the usage table, in
\* strictly ascending timestamp order whatever the table's key order is, and
\* in each block the header lines precede the rows.
BlocksAscending ==
    /\ \A i, j \in 1..Len(DateLines) : i < j => DateLines[i].ts < DateLines[j].ts
    /\ \A i \in 1..Len(DateLines) : DateLines[i].ts \in UsageTimestamps
    /\ pc = "done" =>
          /\ {DateLines[i].ts : i \in 1..Len(DateLines)} = UsageTimestamps
          /\ \A ts \in UsageTimestamps : Complete(ts)
          /\ stdout[Len(stdout)] = Rule("=")
    /\ AfterPrint => \A ts \in UsageTimestamps :
          Complete(ts) =>
              LET b == BlockOf(ts)
                  dash == CHOOSE k \in 1..Len(b) : b[k] = Rule("-")
              IN /\ stdout[StartOf(ts) - 1] = Rule("=")
                 /\ \A k \in 1..Len(b) :
                       b[k].kind \in {"row", "stack"} <=> k > dash

\* a finished report of two blocks, with rows, for a usage table whose later
\* timestamp was inserted first
BlocksAscendingWitness ==
    /\ pc = "done"
    /\ Len(top_data) = 2
    /\ top_data[1].key > top_data[2].key
    /\ \E ts \in UsageTimestamps : RowsOf(ts) # <<>>

(***************************************************************************)
(* Properties of parse_top                                                 *)
(***************************************************************************)
\* the records stored under the snapshots of the table a parser is building
StoredThreads ==
    UNION {{result[k].val.threads[i].val : i \in 1..Len(result[k].val.threads)} :
              k \in 1..Len(result)}

\* the first rule of parse_top ignores the line
Ignored(line) == line = "" \/ ReSearch("PID", line)

\* the number of lines among the first k read that the first rule did not ignore
CountedUpTo(k) == Cardinality({j \in 1..k : ~ Ignored(Strip(f[j]))})

\* the line reaches the process table row rule once a snapshot is open
IsTableRow(line) ==
    /\ ~ Ignored(line)
    /\ ~ DatetimeMatch(line)
    /\ \A p \in {"top", "Threads", "%Cpu", "KiB Mem", "MiB Mem", "KiB Swap", "MiB Swap"} :
          ~ StartsWith(line, p)

\* the line read last
LastLine == Strip(f[Len(f)])

\* C11 as stated: the sequence number of a stored ThreadUsage is the number
\* of lines up to its row that were not ignored as empty or as holding "PID".
SequenceNumberSkipsIgnored ==
    \A t \in StoredThreads :
        \E k \in 1..Len(f) : Strip(f[k]) = t.top_line /\ t.id = CountedUpTo(k)

\* C11 (amended): the sequence number of a stored ThreadUsage is the number
\* of all lines read up to its row, ignored lines included, that is the
\* 1-based number of the row's line in the file; the counter is the number
\* of lines read, and no two stored records share a sequence number.
SequenceNumberIsLineNumber ==
    /\ line_count = Len(f)
    /\ \A t \in StoredThreads : t.id \in 1..Len(f) /\ Strip(f[t.id]) = t.top_line
    /\ \A t, u \in StoredThreads : t # u => t.id # u.id

\* a row stored after an ignored line: its number counts that line
SequenceNumberIsLineNumberWitness ==
    \E t \in StoredThreads : t.id > CountedUpTo(t.id)

\* C12: once a snapshot is open, a line that reaches the process table row
\* rule with too few fields or a non-numeric pid, CPU or memory field ends
\* the parse with an error: nothing is inserted for it, and no step (no
\* later line, no return of a table) follows an error.
MalformedRowAborts ==
    [][/\ pc # "error"
       /\ (/\ pc = "parse_top"
           /\ f' # f
           /\ current_date # NoDate
           /\ IsTableRow(Strip(f'[Len(f')]))
           /\ RowMalformed(Split(Strip(f'[Len(f')]))))
          => (pc' = "error" /\ result' = result /\ parsed' = parsed)]_vars

\* the parse ended on a malformed row read after a well-formed one was stored
MalformedRowAbortsWitness ==
    /\ pc = "error"
    /\ StoredThreads # {}
    /\ IsTableRow(LastLine)
    /\ RowMalformed(Split(LastLine))

\* C16: during a parse pass a snapshot record is only appended to: a thread
\* recorded under a timestamp stays recorded under it, whatever line follows.
SnapshotsOnlyGrow ==
    [][\A ts \in KeySet(result) :
          /\ Has(result', ts)
          /\ KeySet(Get(result, ts).threads) \subseteq KeySet(Get(result', ts).threads)]_vars

(***************************************************************************)
(* Properties of parse_threaddump                                          *)
(***************************************************************************)
\* a step of parse_threaddump that reads a line, and the line it reads
DumpStep == pc = "parse_threaddump" /\ f' # f

ReadLine == Rstrip(f'[Len(f')])

\* the line is a thread header: not a timestamp, not ignored, with a native id
IsHeader(line) ==
    /\ ~ DatetimeMatch(line)
    /\ line # "" /\ ~ ReSearch("Full thread", line)
    /\ ReSearch("nid=0x", line)

\* the line is neither timestamp, ignored, nor thread header
IsStackText(line) ==
    /\ ~ DatetimeMatch(line)
    /\ line # "" /\ ~ ReSearch("Full thread", line)
    /\ ~ ReSearch("nid=0x", line)

\* no ThreadStack is open in the current snapshot
NoStackOpen == current_date = NoDate \/ Get(result, current_date).threads = <<>>

\* C13: a line that is neither timestamp, ignored, nor thread header and
\* that is read while the current snapshot holds no ThreadStack is skipped
\* or raises an error: the table is left as it was (nothing is appended to a
\* ThreadStack of an earlier snapshot, no entry is created).
OrphanLineSkippedOrRaises ==
    [][(DumpStep /\ ~ skip_next /\ IsStackText(ReadLine) /\ NoStackOpen)
          => /\ result' = result
             /\ pc' \in {"parse_threaddump", "error"}
             /\ pc' = "error" <=> current_date # NoDate]_vars

\* a frame read in a fresh second snapshot, after a header of the first
\* snapshot bound nid, raised the error
OrphanLineSkippedOrRaisesWitness ==
    /\ pc = "error"
    /\ Len(result) = 2
    /\ result[1].val.threads # <<>>
    /\ result[2].val.threads = <<>>
    /\ current_date = result[2].key
    /\ Has(result[1].val.threads, nid)
    /\ IsStackText(Rstrip(f[Len(f)]))

\* C14: a thread header whose native id the current snapshot already holds
\* replaces the entry: name and lines come from this header alone, and the
\* entry keeps its place.
DuplicateHeaderReplaces ==
    [][(/\ DumpStep /\ ~ skip_next /\ current_date # NoDate
        /\ IsHeader(ReadLine)
        /\ Has(Get(result, current_date).threads, Nid(ReadLine)))
          => /\ pc' = "parse_threaddump"
             /\ Get(Get(result', current_date).threads, Nid(ReadLine))
                  = [lines |-> <<ReadLine>>, id |-> ThreadId(ReadLine)]
             /\ Keys(Get(result', current_date).threads)
                  = Keys(Get(result, current_date).threads)
             /\ Keys(result') = Keys(result)]_vars

\* a header, a frame and a second header of the same native id were read:
\* the entry holds the second header only, under the second name
DuplicateHeaderReplacesWitness ==
    /\ Len(f) >= 5
    /\ f[Len(f) - 2] = HeaderLine(NameOf(10), 10)
    /\ IsStackText(Rstrip(f[Len(f) - 1]))
    /\ f[Len(f)] = HeaderLine("other", 10)
    /\ current_date # NoDate
    /\ Has(Get(result, current_date).threads, Hex(10))
    /\ Get(Get(result, current_date).threads, Hex(10))
          = [lines |-> <<HeaderLine("other", 10)>>, id |-> "other"]

\* C17: a line read while the skip flag is set is discarded whatever it
\* holds (table, open timestamp and native id stay, no error) and clears
\* the flag; a line read while the flag is clear sets it exactly when it is
\* a timestamp line, which then opens an empty snapshot.
SkipFlagDiscardsOneLine ==
    [][DumpStep =>
          /\ skip_next => /\ result' = result
                          /\ current_date' = current_date
                          /\ nid' = nid
                          /\ ~ skip_next'
                          /\ pc' = "parse_threaddump"
          /\ ~ skip_next => (skip_next' <=> DatetimeMatch(ReadLine))
          /\ (~ skip_next /\ DatetimeMatch(ReadLine))
                => /\ current_date' = Strptime(ReadLine)
                   /\ Has(result', Strptime(ReadLine))
                   /\ Get(result', Strptime(ReadLine)).threads = <<>>]_vars

\* a timestamp line followed by another timestamp line and a header: the
\* second timestamp opened nothing, the header was stored
SkipFlagDiscardsOneLineWitness ==
    /\ Len(f) >= 3
    /\ f[1] = DateLine(1)
    /\ f[2] = DateLine(2)
    /\ f[3] = HeaderLine(NameOf(10), 10)
    /\ Keys(result) = <<1>>
    /\ Has(result[1].val.threads, Hex(10))
    /\ ~ skip_next

\* the lines of the file from the h-th to the e-th read, as the parser sees them
Segment(h, e) == [i \in 1..(e - h + 1) |-> Rstrip(f[h + i - 1])]

\* the k-th line is a thread header or a timestamp line
EndsStack(k) == IsHeader(Rstrip(f[k])) \/ DatetimeMatch(Rstrip(f[k]))

\* the lines of t are a header line of the file followed by those lines
\* Stored selects among the lines after it, up to the next thread header or
\* timestamp line
SpansFile(t, Stored(_)) ==
    \E h \in 1..Len(f) : \E e \in h..Len(f) :
        /\ IsHeader(Rstrip(f[h]))
        /\ \A k \in (h + 1)..e : ~ EndsStack(k)
        /\ e = Len(f) \/ EndsStack(e + 1)
        /\ t.lines = <<Rstrip(f[h])>> \o SelectSeq(Segment(h + 1, e), Stored)

\* C18 as stated: the lines of every ThreadStack are its header line and
\* then all the lines that followed it up to the next thread header or
\* timestamp, empty lines included.
StackHoldsAllLines ==
    \A t \in StoredThreads :
        /\ t.lines # <<>>
        /\ IsHeader(t.lines[1])
        /\ SpansFile(t, LAMBDA l : TRUE)

\* C18 (amended): the lines of every ThreadStack are its header line and
\* then the lines that followed it up to the next thread header or
\* timestamp, in file order, without the empty lines and the lines holding
\* "Full thread", which are not stored; the name is the header's.
StackHoldsStoredLines ==
    \A t \in StoredThreads :
        /\ t.lines # <<>>
        /\ IsHeader(t.lines[1])
        /\ t.id = ThreadId(t.lines[1])
        /\ SpansFile(t, LAMBDA l : l # "" /\ ~ ReSearch("Full thread", l))

\* a header, an empty line and a frame were read: the stack holds the
\* header and the frame
StackHoldsStoredLinesWitness ==
    \E t \in StoredThreads : \E h \in 1..(Len(f) - 2) :
        /\ Rstrip(f[h]) = t.lines[1]
        /\ Rstrip(f[h + 1]) = ""
        /\ IsStackText(Rstrip(f[h + 2]))
        /\ t.lines = <<Rstrip(f[h]), Rstrip(f[h + 2])>>

(***************************************************************************)
(* Further properties of print_report and __main__                         *)
(***************************************************************************)
\* C15 as stated: when no file matched, the run ends in an error before
\* print_report is entered and prints nothing.
NoFileIsConfigurationError ==
    (file_no = 0 /\ pc \notin {"glob_top", "glob_tdump"})
        => (pc = "error" /\ stdout = <<>>)

\* the header line of the stack record of thread i of ts
HeaderFor(ts, i) ==
    Get(Get(threaddump_data, ts).threads, UsageThreads(ts)[i].hex_pid).lines[1]

\* some pattern of the name filter is found in the text
NameMatches(text) == \E x \in args.thread_names : ReSearch(x, text)

\* C19: with a name filter set, every emitted row belongs to a thread whose
\* resolved name (the dump's name, or the command without a stack record) a
\* pattern matches, whether or not its header line matches; and the name a
\* row shows is the header line when show_header_line is set and the thread
\* has a stack record, the resolved name otherwise.
NameFilterBeforeOverride ==
    \A ts \in UsageTimestamps :
        LET rows == EmittedRows(ts)
            th == UsageThreads(ts)
        IN \A k \in 1..Len(rows) :
              LET i == ThreadIndex(ts, rows[k])
              IN /\ args.thread_names # {} => NameMatches(NameFor(ts, i))
                 /\ rows[k].name =
                      IF args.print_thread_info /\ th[i].hex_pid \in StackNids(ts)
                      THEN HeaderFor(ts, i) ELSE NameFor(ts, i)

\* show_header_line is set and a block was printed without a row for a
\* thread that only the name filter excludes, though its header line matches
NameFilterBeforeOverrideWitness ==
    /\ args.print_thread_info
    /\ args.thread_names # {}
    /\ \E ts \in UsageTimestamps :
          /\ Complete(ts)
          /\ \E i \in 1..Len(UsageThreads(ts)) :
                LET t == UsageThreads(ts)[i]
                IN /\ t.hex_pid \in StackNids(ts)
                   /\ NameMatches(HeaderFor(ts, i))
                   /\ ~ NameMatches(NameFor(ts, i))
                   /\ WithinLimit(ts, i)
                   /\ t.cpu >= args.cpu
                   /\ args.thread_ids = {}
                   /\ \A k \in 1..Len(RowsOf(ts)) : RowsOf(ts)[k].pid # t.pid

\* the row shows a thread of the usage snapshot of ts
RowOfSnapshot(ts, row) ==
    \E i \in 1..Len(UsageThreads(ts)) :
        UsageThreads(ts)[i].pid = row.pid /\ UsageThreads(ts)[i].cpu = row.cpu

\* the number of rows of a block when neither floor nor filter excludes
RowsWithoutFilter(ts) ==
    LET n == Len(UsageThreads(ts))
    IN IF args.limit = 0 - 1 \/ Max0(args.limit) > n THEN n ELSE Max0(args.limit)

\* C20: the counters and the row buffer of print_report are those of the
\* current timestamp alone: the emitted count and the CPU sum are the count
\* and the sum of the rows held, every row held or printed in a block shows
\* a thread of that timestamp's snapshot, and with neither floor nor filter
\* a block has min(rank_limit, threads) rows (all with limit -1) whatever
\* the earlier blocks printed.
CountersResetPerTimestamp ==
    /\ pc \in {"threads", "block"} =>
          LET rows == SelectSeq(output, IsRow)
          IN /\ hit_threads = Len(rows)
             /\ hit_cpu_usage = SumRows(rows)
             /\ current_limit <= args.limit
             /\ \A k \in 1..Len(rows) : RowOfSnapshot(timestamp, rows[k])
    /\ AfterPrint => \A ts \in UsageTimestamps :
          Complete(ts) =>
              LET rows == RowsOf(ts)
              IN /\ \A k \in 1..Len(rows) : RowOfSnapshot(ts, rows[k])
                 /\ \A j, k \in 1..Len(rows) : j # k => rows[j].pid # rows[k].pid
                 /\ args.limit >= 0 => Len(rows) <= args.limit
                 /\ (args.cpu = 0 /\ args.thread_ids = {} /\ args.thread_names = {})
                        => Len(rows) = RowsWithoutFilter(ts)

\* two blocks were printed under a rank limit above 0, each with as many
\* rows as the limit allows
CountersResetPerTimestampWitness ==
    /\ pc = "done"
    /\ args.limit > 0
    /\ Cardinality(UsageTimestamps) = 2
    /\ \A ts \in UsageTimestamps : Complete(ts) /\ Len(RowsOf(ts)) = args.limit

====
